---- MODULE Spec2Model ----
(***************************************************************************)
(* Serverless proxy handlers of easyutilityhub-backend: CORS preflight,    *)
(* credential lookup, input validation, the outbound vendor call with its  *)
(* bounded exponential-backoff retry loop, and response translation.       *)
(*                                                                         *)
(* Strings the code inspects with String.includes are modelled as          *)
(* sequences of word tokens; includes is contiguous sub-sequence search.   *)
(***************************************************************************)
EXTENDS Integers, Sequences, FiniteSets, TLC

VARIABLES rq, env

vars == <<rq, env>>

(***************************************************************************)
(* Bounds of the model (not program constants).                            *)
(***************************************************************************)
\* number of distinct well-formed JSON documents the vendor can answer with
NPayload == 2

(***************************************************************************)
(* Program constants.                                                      *)
(***************************************************************************)
MAX_RETRIES == 3
BASE_DELAY == 1000

(***************************************************************************)
(* String helpers.                                                         *)
(***************************************************************************)
\* String.prototype.includes on token sequences
Includes(hay, needle) ==
  \E i \in 1..(Len(hay) - Len(needle) + 1) :
     SubSeq(hay, i, i + Len(needle) - 1) = needle

LowerTok(t) ==
  CASE t = "Gemini" -> "gemini"
    [] t = "API" -> "api"
    [] t = "Error" -> "error"
    [] t = "AI" -> "ai"
    [] t = "Invalid" -> "invalid"
    [] t = "JSON" -> "json"
    [] t = "The" -> "the"
    [] t = "Unexpected" -> "unexpected"
    [] t = "Failed" -> "failed"
    [] t = "Bad Request" -> "bad request"
    [] t = "Too Many Requests" -> "too many requests"
    [] t = "Please" -> "please"
    [] t = "Max" -> "max"
    [] OTHER -> t

\* String.prototype.toLowerCase
ToLowerCase(s) == [i \in 1..Len(s) |-> LowerTok(s[i])]

(***************************************************************************)
(* Messages of the code (string literals, tokenised).                      *)
(***************************************************************************)
ReasonDefault == <<"Unexpected", "or", "empty", "response", "structure", "from", "AI", ".">>
ReasonSafety == <<"AI", "response", "blocked", "due", "to", "safety", "settings", ".">>
ReasonRecitation == <<"AI", "response", "blocked", "due", "to", "potential", "recitation", ".">>
OverloadThrown == <<"The", "model", "is", "overloaded", ".", "Please", "try", "again", "later", ".",
                    "(", "Max", "retries", "reached", ")">>

MsgKeyMissing == <<"ERROR", ":", "API", "Key", "is", "not", "configured", "on", "the", "server", ".">>
MsgTextRequired == <<"ERROR", ":", "Input", "text", "is", "required", ".">>
MsgTextModeRequired == <<"ERROR", ":", "Input", "text", "and", "mode", "are", "required", ".">>
MsgDefault == <<"ERROR", ":", "The", "AI", "service", "encountered", "an", "issue", "processing", "the", "request", ".">>
MsgOverload == <<"ERROR", ":", "The", "model", "is", "overloaded", ".", "Please", "try", "again", "later", ".">>
MsgInvalidFormat == <<"ERROR", ":", "Received", "an", "invalid", "response", "format", "from", "the", "AI", ".">>
MsgRecitation == <<"ERROR", ":", "AI", "analysis", "was", "blocked", ".", "The", "text", "may", "be", "too",
                   "similar", "to", "a", "web", "source", ".">>
\* the AbortError message of each retry handler's outer catch
MsgTimeout(h) ==
  CASE h = "grammar" -> <<"ERROR", ":", "The", "AI", "analysis", "took", "too", "long", ".", "Please", "try", "again", ".">>
    [] h = "plagiarism1" -> <<"ERROR", ":", "The", "plagiarism", "analysis", "took", "too", "long", ".", "Please", "try", "again", ".">>
    [] h = "paraphrase" -> <<"ERROR", ":", "The", "paraphrasing", "analysis", "took", "too", "long", ".", "Please", "try", "again", ".">>
    [] OTHER -> <<"ERROR", ":", "The", "analysis", "took", "too", "long", ".", "Please", "try", "again", ".">>

StatusText(status) ==
  CASE status = 400 -> "Bad Request"
    [] status = 429 -> "Too Many Requests"
    [] status = 503 -> "Service Unavailable"
    [] OTHER -> "OK"

\* `Gemini API Error: ${apiResponse.status} ${apiResponse.statusText}`
StatusMessage(status) == <<"Gemini", "API", "Error", ":", ToString(status), StatusText(status)>>

(***************************************************************************)
(* Messages produced outside the repository: the runtime and the vendor.   *)
(***************************************************************************)
\* message of the TypeError the runtime's fetch rejects with
TransportMessages == { <<"fetch", "failed">>, <<"Failed", "to", "fetch">> }

\* error.message of a vendor error body
VendorMessages ==
  { <<"API", "key", "not", "valid", ".">>,
    <<"Invalid", "JSON", "payload", "received", ".">>,
    <<"The", "model", "is", "overloaded", ".">> }

\* message of the SyntaxError thrown by JSON.parse / Response.json
SyntaxMessage == <<"Unexpected", "token", "is", "not", "valid", "JSON">>

\* message of the TypeError thrown by destructuring undefined
DestructureMessage == <<"Cannot", "destructure", "property", "of", "undefined">>

Err(name, message) == [name |-> name, message |-> message]


(***************************************************************************)
(* The handlers of the repository.                                         *)
(***************************************************************************)
\* the five handlers built around the retry loop
RetryHandlers == {"grammar", "plagiarism1", "plagiarism2", "paraphrase", "humanizer"}

\* single-call Gemini handlers that validate a field before the key
GameHandlers == {"wordScramble", "hangman", "nameCombiner", "riddle"}

\* typing-test handlers whose whole body runs inside try
TypingTryHandlers == {"typing1", "typing2", "typing3"}

TypingHandlers == TypingTryHandlers \cup {"typing4"}

\* image handlers that read req.body and build a FormData from it
ImageBodyHandlers == {"removebgRaw", "removebgForm", "clipdropRaw"}

\* image handlers that buffer the inbound stream and build a FormData
ImageBufferHandlers == {"clipdropForm", "clipdropFormNoHdr"}

ImageHandlers == ImageBodyHandlers \cup ImageBufferHandlers \cup {"clipdropStream", "clipdropPipe"}

Handlers == RetryHandlers \cup GameHandlers \cup TypingHandlers \cup ImageHandlers
              \cup {"grammarSimple", "grammarSdk"}

\* name of the environment variable a handler reads
KeyVar(h) ==
  CASE h \in {"clipdropStream", "clipdropPipe", "clipdropForm", "clipdropFormNoHdr", "clipdropRaw"}
         -> "CLIPDROP_API_KEY"
    [] h \in {"removebgRaw", "removebgForm"} -> "REMOVE_BG_API_KEY"
    [] OTHER -> "GEMINI_API_KEY"

KeyVars == {"GEMINI_API_KEY", "CLIPDROP_API_KEY", "REMOVE_BG_API_KEY"}

\* fields of the JSON body a handler destructures and tests
Fields(h) ==
  CASE h \in {"grammar", "plagiarism1", "plagiarism2", "humanizer", "grammarSimple", "grammarSdk"}
         -> {"text"}
    [] h = "paraphrase" -> {"text", "mode"}
    [] h \in {"wordScramble", "hangman"} -> {"category"}
    [] h = "nameCombiner" -> {"name1", "name2"}
    [] h = "riddle" -> {"type", "category"}
    [] OTHER -> {}

(***************************************************************************)
(* Inbound requests.                                                       *)
(***************************************************************************)
Methods == {"POST", "OPTIONS", "GET"}

\* classes of a JSON field's value: undefined, "", whitespace only,
\* a non-empty string, a non-string truthy value
ValClass == {"absent", "empty", "blank", "str", "num"}

\* JavaScript truthiness
Truthy(v) == v \in {"blank", "str", "num"}

IsString(v) == v \in {"empty", "blank", "str"}

\* req.body: undefined, or an object with the handler's fields
Bodies(h) ==
  { [defined |-> FALSE, f |-> [x \in Fields(h) |-> "absent"]] }
  \cup { [defined |-> TRUE, f |-> g] : g \in [Fields(h) -> ValClass] }

EmptyObj == [x \in {} |-> ""]

NewRequest(h, method, body) ==
  [h |-> h, method |-> method, body |-> body,
   pc |-> "start", attempt |-> 0, delay |-> 0,
   log |-> <<>>, res |-> <<>>, hdrs |-> {},
   last |-> [status |-> 0, msg |-> <<>>],
   out |-> [body |-> "", ctype |-> ""]]

Ev(ev, n, tag, d) == [ev |-> ev, n |-> n, tag |-> tag, d |-> d]

\* the response is written but the handler does not return
RespondNoReturn(q, status, kind, body) ==
  [q EXCEPT !.res = Append(@, [status |-> status, kind |-> kind, body |-> body]),
            !.log = Append(@, Ev("write", status, kind, 0))]

\* res.status(s).json(b) / .end() / .send(buf): the response is written and
\* the handler returns
Respond(q, status, kind, body) ==
  [q EXCEPT !.pc = "done",
            !.res = Append(@, [status |-> status, kind |-> kind, body |-> body]),
            !.log = Append(@, Ev("write", status, kind, 0))]

\* what the handler hands to fetch (or to the SDK): the body object and the
\* Content-Type header it passes along
Outbound(h) ==
  CASE h \in {"removebgForm", "clipdropForm"} -> [body |-> "formData", ctype |-> "multipart"]
    [] h = "clipdropFormNoHdr" -> [body |-> "formData", ctype |-> "none"]
    [] h \in {"removebgRaw", "clipdropRaw"} -> [body |-> "imageBuffer", ctype |-> "none"]
    [] h \in {"clipdropStream", "clipdropPipe"} -> [body |-> "req", ctype |-> "inbound"]
    [] h = "grammarSdk" -> [body |-> "prompt", ctype |-> "none"]
    [] OTHER -> [body |-> "json", ctype |-> "application/json"]

\* the handler issues the outbound call and suspends on it
Call(q) ==
  [q EXCEPT !.pc = "fetch", !.log = Append(@, Ev("call", q.attempt, "", 0)),
            !.out = Outbound(q.h)]

\* an exception leaves the handler uncaught: no response is written
Crash(q) == [q EXCEPT !.pc = "crashed"]

SetHeaders(q, names) == [q EXCEPT !.hdrs = @ \cup names]

CorsHeaders(h) ==
  {"Access-Control-Allow-Origin", "Access-Control-Allow-Methods", "Access-Control-Allow-Headers"}
  \cup (IF h \in {"removebgRaw", "removebgForm", "clipdropForm", "clipdropFormNoHdr", "clipdropRaw"}
        THEN {"Access-Control-Allow-Credentials"} ELSE {})

KeyConfigured(h, e) == KeyVar(h) \in e.keys

JsonError(message) == [success |-> "false", message |-> message]


(***************************************************************************)
(* Request ingress: everything a handler does before its first outbound    *)
(* call.  Each operator gives the set of states the handler can be in when *)
(* it first suspends or returns.                                           *)
(***************************************************************************)
\* grammar, both plagiarism variants, paraphrase, humanizer and the simple
\* grammar handler: key, then destructuring of req.body outside try
IngressKeyFirst(q, e) ==
  IF ~KeyConfigured(q.h, e) THEN {Respond(q, 500, "json", JsonError(MsgKeyMissing))}
  ELSE IF ~q.body.defined THEN {Crash(q)}
  ELSE IF q.h = "paraphrase" THEN
         IF ~Truthy(q.body.f["text"]) \/ ~Truthy(q.body.f["mode"])
         THEN {Respond(q, 400, "json", JsonError(MsgTextModeRequired))}
         \* mode.toLowerCase() while the prompt is built
         ELSE IF ~IsString(q.body.f["mode"]) THEN {Crash(q)}
         ELSE {Call(q)}
  ELSE IF ~Truthy(q.body.f["text"])
         THEN {Respond(q, 400, "json", JsonError(MsgTextRequired))}
         ELSE {Call(q)}

MsgFieldRequired(h) ==
  CASE h = "nameCombiner" -> <<"ERROR", ":", "Both", "names", "are", "required", ".">>
    [] h = "riddle" -> <<"ERROR", ":", "Type", "and", "category", "are", "required", ".">>
    [] OTHER -> <<"ERROR", ":", "Category", "is", "required", ".">>

\* word scramble, hangman, name combiner, riddle: destructuring of
\* request.body, the required fields, then the key
IngressFieldFirst(q, e) ==
  IF ~q.body.defined THEN {Crash(q)}
  ELSE IF \E x \in Fields(q.h) : ~Truthy(q.body.f[x])
         THEN {Respond(q, 400, "json", JsonError(MsgFieldRequired(q.h)))}
  ELSE IF ~KeyConfigured(q.h, e)
         THEN {Respond(q, 500, "json", JsonError(MsgKeyMissing))}
  ELSE {Call(q)}

MsgTypingKeyMissing(h) ==
  IF h = "typing4" THEN <<"API", "Key", "missing", ".">>
  ELSE <<"Server", "Config", "Error", ":", "API", "Key", "missing", ".">>

\* typing-test handlers: key, then destructuring of request.body, inside
\* try for three of them and before try for the fourth
IngressTyping(q, e) ==
  IF ~KeyConfigured(q.h, e)
    THEN {Respond(q, 500, "json", JsonError(MsgTypingKeyMissing(q.h)))}
  ELSE IF ~q.body.defined
    THEN IF q.h \in TypingTryHandlers
           THEN {Respond(q, 500, "json", JsonError(DestructureMessage))}
           ELSE {Crash(q)}
  ELSE {Call(q)}

MsgImageKeyMissing(h) ==
  IF h \in {"clipdropStream", "removebgRaw"} THEN <<"API", "key", "not", "configured", ".">>
  ELSE <<"API", "key", "is", "not", "configured", ".">>

MsgImageFailed == <<"Failed", "to", "process", "the", "image", ".">>

\* image handlers behind allowCors: key, then the payload is assembled
\* inside try; FormData.append of an undefined req.body either throws or not
IngressImage(q, e) ==
  IF ~KeyConfigured(q.h, e)
    THEN {Respond(q, 500, "json", [error |-> MsgImageKeyMissing(q.h)])}
  ELSE IF q.h \in ImageBodyHandlers /\ ~q.body.defined
    THEN {Respond(q, 500, "json", [error |-> MsgImageFailed]), Call(q)}
  ELSE {Call(q)}

\* the streaming ClipDrop variant: no CORS wrapper, POST only
MsgMethodNotAllowed == <<"Method", "Not", "Allowed">>

IngressPipe(q, e) ==
  IF q.method # "POST"
    THEN {Respond(q, 405, "json", [error |-> MsgMethodNotAllowed])}
  ELSE IF ~KeyConfigured(q.h, e)
    THEN {Respond(q, 500, "json", [error |-> MsgImageKeyMissing(q.h)])}
  ELSE {Call(q)}

MsgModelMissing == <<"Server", "error", ":", "AI", "model", "not", "initialized", ".">>
MsgInvalidRequest ==
  <<"Invalid", "request", ":", "text", "field", "is", "missing", "or", "not", "a", "string", ".">>
MsgMethod(method) == <<"Method", method, "Not", "Allowed">>

\* the SDK-based grammar handler, after its preflight answer
IngressSdk(q, e) ==
  IF q.method = "POST" THEN
    IF ~e.model
      THEN {Respond(q, 500, "json", JsonError(MsgModelMissing))}
    ELSE IF ~q.body.defined
      THEN {Respond(q, 500, "json", JsonError(DestructureMessage))}
    ELSE IF ~IsString(q.body.f["text"])
      THEN {Respond(q, 400, "json", JsonError(MsgInvalidRequest))}
    ELSE IF q.body.f["text"] \in {"empty", "blank"}
      THEN {Respond(q, 200, "json",
                    [success |-> "true", analysis |-> "N/A 100", corrections |-> "[]"])}
    ELSE {Call(q)}
  ELSE {Respond(SetHeaders(q, {"Allow"}), 405, "json", JsonError(MsgMethod(q.method)))}

\* allowCors, or the same lines at the head of a handler: the CORS headers,
\* the preflight answer, then the handler proper
AllowCors(q, e) ==
  LET q1 == SetHeaders(q, CorsHeaders(q.h)) IN
  IF q.method = "OPTIONS" THEN {Respond(q1, 200, "end", EmptyObj)}
  ELSE IF q.h \in RetryHandlers \cup {"grammarSimple"} THEN IngressKeyFirst(q1, e)
  ELSE IF q.h \in GameHandlers THEN IngressFieldFirst(q1, e)
  ELSE IF q.h \in TypingHandlers THEN IngressTyping(q1, e)
  ELSE IF q.h = "grammarSdk" THEN IngressSdk(q1, e)
  ELSE IngressImage(q1, e)

Ingress(q, e) ==
  IF q.h = "clipdropPipe" THEN IngressPipe(q, e) ELSE AllowCors(q, e)


(***************************************************************************)
(* What the upstream can do with one outbound call.                        *)
(***************************************************************************)
\* non-success statuses other than 503 the vendor answers with
ErrorStatuses == {400, 429}

Outcome(kind, emsg, status, json, hasError, errMsg, fmt, d, finish) ==
  [kind |-> kind, emsg |-> emsg, status |-> status, json |-> json, hasError |-> hasError,
   errMsg |-> errMsg, fmt |-> fmt, d |-> d, finish |-> finish]

\* fetch rejects: transport-level failure
Thrown(m) == Outcome("throw", m, 0, FALSE, FALSE, <<>>, "none", 0, "STOP")

\* success status, first candidate's first part has text of format fmt
OkText(fmt, d) == Outcome("resp", <<>>, 200, TRUE, FALSE, <<>>, fmt, d, "STOP")

\* success status, no text part, the candidate's finishReason
OkNoText(finish) == Outcome("resp", <<>>, 200, TRUE, FALSE, <<>>, "none", 0, finish)

\* success status, body is not JSON
OkBadBody == Outcome("resp", <<>>, 200, FALSE, FALSE, <<>>, "none", 0, "STOP")

\* non-success status; a JSON body carries error.message m (possibly none)
Failed(status, json, m) == Outcome("resp", <<>>, status, json, json, m, "none", 0, "STOP")

Outcomes ==
  { Thrown(m) : m \in TransportMessages }
  \cup { OkText(fmt, d) : fmt \in {"json", "fenced"}, d \in 1..NPayload }
  \cup { OkText(fmt, 0) : fmt \in {"garbage", "blank", "empty"} }
  \cup { OkNoText(fin) : fin \in {"STOP", "SAFETY", "RECITATION"} }
  \cup { OkBadBody }
  \cup { Failed(st, TRUE, m) : st \in ErrorStatuses, m \in VendorMessages \cup {<<>>} }
  \cup { Failed(st, FALSE, <<>>) : st \in ErrorStatuses }
  \cup { Failed(503, TRUE, <<"The", "model", "is", "overloaded", ".">>), Failed(503, FALSE, <<>>) }

\* apiResponse.ok
Ok(o) == o.status >= 200 /\ o.status <= 299

\* the class of an outcome, as recorded in a request's log
Tag(o) ==
  CASE o.kind = "throw" -> "transport"
    [] o.kind = "resp" /\ o.status = 503 -> "503"
    [] o.kind = "resp" /\ o.status # 503 /\ ~Ok(o) -> "status"
    [] o.kind = "resp" /\ Ok(o) /\ ~o.json -> "badbody"
    [] o.kind = "resp" /\ Ok(o) /\ o.json /\ o.fmt \in {"none", "empty"}
         -> IF o.finish \in {"SAFETY", "RECITATION"} THEN "blocked" ELSE "missing"
    [] OTHER -> o.fmt

\* the JSON documents the vendor answers with
Payload(d) ==
  CASE d = 1 -> [analysis |-> "formal 90", corrections |-> "[]"]
    [] d = 2 -> [analysis |-> "casual 40", corrections |-> "[c1]", success |-> "false"]
    [] OTHER -> [analysis |-> ToString(d), corrections |-> "[c1]"]

\* the literal fields alone, the parsed document left out
SpreadBaseOnly(base, data) == base

\* { success: true, ...data }: later keys win
Spread(base, data) ==
  [x \in (DOMAIN base) \cup (DOMAIN data) |-> IF x \in DOMAIN data THEN data[x] ELSE base[x]]

\* the text of a part as a JavaScript string value
RawText(o) == o.fmt \o ":" \o ToString(o.d)

\* String.prototype.trim
TrimText(o) == IF o.fmt \in {"blank", "empty"} THEN "" ELSE RawText(o)

(***************************************************************************)
(* The retry loop: body of try, inner catch, outer catch.                  *)
(***************************************************************************)
Ret(data) == [t |-> "return", data |-> data, err |-> Err("", <<>>), delay |-> 0]
Thr(err) == [t |-> "throw", data |-> EmptyObj, err |-> err, delay |-> 0]
Slp(delay) == [t |-> "sleep", data |-> EmptyObj, err |-> Err("", <<>>), delay |-> delay]

\* a backoff growing linearly instead of doubling
DelayLinear(attempt) == BASE_DELAY * (attempt + 1)

\* BASE_DELAY * Math.pow(2, attempt)
Delay(attempt) == BASE_DELAY * (2 ^ attempt)

\* the reason thrown when the first part has no text
MissingReason(h, o) ==
  IF h = "paraphrase"
    THEN IF o.finish = "SAFETY" THEN ReasonSafety ELSE ReasonDefault
    ELSE CASE o.finish = "SAFETY" -> ReasonSafety
           [] o.finish = "RECITATION" -> ReasonRecitation
           [] OTHER -> ReasonDefault

\* ParseText answering with one fixed document whatever the vendor sent
ParseTextFirst(h, o) ==
  CASE h = "paraphrase" -> Ret([success |-> "true", paraphrasedText |-> "json:1"])
    [] h = "plagiarism2" ->
         IF o.fmt \in {"json", "fenced"}
           THEN Ret(Spread([success |-> "true"], Payload(1)))
           ELSE Thr(Err("SyntaxError", SyntaxMessage))
    [] OTHER ->
         IF o.fmt = "json"
           THEN Ret(Spread([success |-> "true"], Payload(1)))
           ELSE Thr(Err("SyntaxError", SyntaxMessage))

\* the success branch once part.text is there
ParseText(h, o) ==
  CASE h = "paraphrase" -> Ret([success |-> "true", paraphrasedText |-> TrimText(o)])
    [] h = "plagiarism2" ->
         \* trim, strip a markdown fence, JSON.parse
         IF o.fmt \in {"json", "fenced"}
           THEN Ret(Spread([success |-> "true"], Payload(o.d)))
           ELSE Thr(Err("SyntaxError", SyntaxMessage))
    [] OTHER ->
         IF o.fmt = "json"
           THEN Ret(Spread([success |-> "true"], Payload(o.d)))
           ELSE Thr(Err("SyntaxError", SyntaxMessage))

\* errorJson?.error?.message || errorBody
ErrorBody(o) ==
  IF o.json /\ o.hasError /\ o.errMsg # <<>> THEN o.errMsg ELSE StatusMessage(o.status)

\* InnerTry without the exhaustion test of the 503 branch
InnerTryNoExhaustion(h, attempt, o) ==
  IF o.kind = "throw" THEN Thr(Err("TypeError", o.emsg))
  ELSE IF Ok(o) THEN
    IF ~o.json THEN Thr(Err("SyntaxError", SyntaxMessage))
    ELSE IF o.fmt \in {"none", "empty"} THEN Thr(Err("Error", MissingReason(h, o)))
    ELSE ParseText(h, o)
  ELSE IF o.status = 503 THEN Slp(Delay(attempt))
  ELSE Thr(Err("Error", ErrorBody(o)))

\* the body of the inner try, from the settling of fetch on
InnerTry(h, attempt, o) ==
  IF o.kind = "throw" THEN Thr(Err("TypeError", o.emsg))
  ELSE IF Ok(o) THEN
    IF ~o.json THEN Thr(Err("SyntaxError", SyntaxMessage))
    ELSE IF o.fmt \in {"none", "empty"} THEN Thr(Err("Error", MissingReason(h, o)))
    ELSE ParseText(h, o)
  ELSE IF o.status = 503 THEN
    IF attempt = MAX_RETRIES THEN Thr(Err("Error", OverloadThrown))
    ELSE Slp(Delay(attempt))
  ELSE Thr(Err("Error", ErrorBody(o)))

Rethrow == [t |-> "rethrow", delay |-> 0]
RetrySleep(delay) == [t |-> "sleep", delay |-> delay]
FallThrough == [t |-> "next", delay |-> 0]

\* InnerCatchGrammar without the give-up at the last attempt
InnerCatchGrammarNoGiveUp(attempt, err) ==
  IF ~Includes(err.message, <<"503">>) /\ ~Includes(err.message, <<"overloaded">>)
    THEN RetrySleep(Delay(attempt))
    ELSE FallThrough

\* grammar and the first plagiarism variant
InnerCatchGrammar(attempt, err) ==
  IF attempt = MAX_RETRIES THEN Rethrow
  ELSE IF ~Includes(err.message, <<"503">>) /\ ~Includes(err.message, <<"overloaded">>)
    THEN RetrySleep(Delay(attempt))
    ELSE FallThrough

\* the second plagiarism variant
InnerCatchPlagiarism2(attempt, err) ==
  LET errorString == ToLowerCase(err.message) IN
  IF \/ Includes(errorString, <<"recitation">>)
     \/ Includes(errorString, <<"safety">>)
     \/ Includes(errorString, <<"invalid">>)
     \/ Includes(errorString, <<"gemini", "api", "error">>)
    THEN Rethrow
  ELSE IF attempt = MAX_RETRIES THEN Rethrow
  ELSE RetrySleep(Delay(attempt))

\* the humanizer's inner catch giving up on API errors only
InnerCatchHumanizerApiOnly(attempt, err) ==
  IF Includes(err.message, <<"Gemini", "API", "Error">>) THEN Rethrow
  ELSE IF attempt = MAX_RETRIES THEN Rethrow
  ELSE RetrySleep(Delay(attempt))

\* the humanizer
InnerCatchHumanizer(attempt, err) ==
  IF \/ Includes(err.message, <<"Gemini", "API", "Error">>)
     \/ Includes(err.message, <<"safety">>)
     \/ Includes(err.message, <<"recitation">>)
    THEN Rethrow
  ELSE IF attempt = MAX_RETRIES THEN Rethrow
  ELSE RetrySleep(Delay(attempt))

\* the paraphrase inner catch retrying whatever was thrown
InnerCatchParaphraseAll(attempt, err) ==
  IF attempt = MAX_RETRIES THEN Rethrow
  ELSE RetrySleep(Delay(attempt))

\* paraphrase
InnerCatchParaphrase(attempt, err) ==
  IF attempt = MAX_RETRIES THEN Rethrow
  ELSE IF \/ Includes(err.message, <<"Failed", "to", "fetch">>)
          \/ Includes(err.message, <<"network", "error">>)
    THEN RetrySleep(Delay(attempt))
    ELSE Rethrow

InnerCatch(h, attempt, err) ==
  CASE h \in {"grammar", "plagiarism1"} -> InnerCatchGrammar(attempt, err)
    [] h = "plagiarism2" -> InnerCatchPlagiarism2(attempt, err)
    [] h = "humanizer" -> InnerCatchHumanizer(attempt, err)
    [] OTHER -> InnerCatchParaphrase(attempt, err)

\* OuterCatch without the overload branch
OuterCatchNoOverload(h, err) ==
  IF err.name = "AbortError" THEN MsgTimeout(h)
  ELSE IF h = "plagiarism2" /\ Includes(err.message, <<"recitation">>) THEN MsgRecitation
  ELSE IF Includes(err.message, <<"Gemini", "API", "Error", ":">>) THEN <<"ERROR", ":">> \o err.message
  ELSE IF h \in {"grammar", "plagiarism1"} /\ err.name = "SyntaxError" THEN MsgInvalidFormat
  ELSE MsgDefault

\* the message the outer catch sends with its 500
OuterCatch(h, err) ==
  IF err.name = "AbortError" THEN MsgTimeout(h)
  ELSE IF Includes(err.message, <<"overloaded">>) THEN MsgOverload
  ELSE IF h = "plagiarism2" /\ Includes(err.message, <<"recitation">>) THEN MsgRecitation
  ELSE IF Includes(err.message, <<"Gemini", "API", "Error", ":">>) THEN <<"ERROR", ":">> \o err.message
  ELSE IF h \in {"grammar", "plagiarism1"} /\ err.name = "SyntaxError" THEN MsgInvalidFormat
  ELSE MsgDefault

\* sleep(delay) started but not awaited: the loop goes on at once
SleepNotAwaited(q, ms) ==
  LET q1 == [q EXCEPT !.log = Append(@, Ev("sleep", ms, "", 0))] IN
  IF q1.attempt + 1 <= MAX_RETRIES
    THEN [q1 EXCEPT !.attempt = @ + 1, !.pc = "fetch",
                    !.log = Append(@, Ev("call", q1.attempt + 1, "", 0))]
    ELSE [q1 EXCEPT !.attempt = @ + 1, !.pc = "done"]

\* await sleep(delay)
Sleep(q, ms) ==
  [q EXCEPT !.pc = "sleep", !.delay = ms, !.log = Append(@, Ev("sleep", ms, "", 0))]

\* attempt++ and the loop test; a loop that runs out ends the handler with
\* no response written
LoopNext(q) ==
  IF q.attempt + 1 <= MAX_RETRIES
    THEN Call([q EXCEPT !.attempt = @ + 1, !.delay = 0])
    ELSE [q EXCEPT !.attempt = @ + 1, !.delay = 0, !.pc = "done"]

\* the status and the message text of the settled call, as the handler
\* holds them in apiResponse / errorJson / fetchError
Last(o) ==
  [status |-> o.status, msg |-> IF o.kind = "throw" THEN o.emsg ELSE o.errMsg]

Received(q, o) ==
  [q EXCEPT !.log = Append(@, Ev("recv", q.attempt, Tag(o), o.d)), !.last = Last(o)]

\* one iteration of the retry loop, from the settling of fetch to the next
\* suspension or the response
ReplyRetry(q, o) ==
  LET r == InnerTry(q.h, q.attempt, o)
      q1 == Received(q, o)
  IN
  CASE r.t = "return" -> Respond(q1, 200, "json", r.data)
    [] r.t = "sleep" -> Sleep(q1, r.delay)
    [] OTHER ->
         LET c == InnerCatch(q.h, q.attempt, r.err) IN
         CASE c.t = "rethrow" -> Respond(q1, 500, "json", JsonError(OuterCatch(q.h, r.err)))
           [] c.t = "sleep" -> Sleep(q1, c.delay)
           [] OTHER -> LoopNext(q1)


(***************************************************************************)
(* The single-call handlers.                                               *)
(***************************************************************************)
MsgServiceError == <<"ERROR", ":", "The", "AI", "service", "returned", "an", "error", ".">>
MsgServiceIssue == <<"ERROR", ":", "The", "AI", "service", "encountered", "an", "issue", ".">>
MsgEmptyResponse == <<"AI", "returned", "empty", "response">>

\* word scramble, hangman, name combiner, riddle: every failure inside try
\* ends in the same curated 500
ReplyGame(q, o) ==
  LET q1 == Received(q, o)
      fail == Respond(q1, 500, "json", JsonError(MsgServiceError))
  IN
  IF o.kind = "throw" \/ ~o.json \/ o.hasError THEN fail
  \* result.candidates[0].content.parts[0].text, then the fence is
  \* stripped and the text parsed
  ELSE IF o.fmt \in {"json", "fenced"}
    THEN IF q.h = "nameCombiner"
           THEN Respond(q1, 200, "json", [success |-> "true", names |-> RawText(o)])
           ELSE Respond(q1, 200, "json", Spread([success |-> "true"], Payload(o.d)))
  ELSE fail

\* the fetch-based grammar handler without retry
ReplyGrammarSimple(q, o) ==
  LET q1 == Received(q, o)
      fail == Respond(q1, 500, "json", JsonError(MsgServiceIssue))
  IN
  IF o.kind = "throw" \/ ~o.json \/ o.hasError THEN fail
  ELSE IF o.fmt = "json"
    THEN Respond(q1, 200, "json", Spread([success |-> "true"], Payload(o.d)))
  ELSE fail

\* text.replace(/\n/g, ' ').replace(/\s+/g, ' ').trim()
CleanText(o) == TrimText(o)

\* the typing-test handlers: the caught error's message is sent back
ReplyTyping(q, o) ==
  LET q1 == Received(q, o) IN
  IF o.kind = "throw" THEN Respond(q1, 500, "json", JsonError(o.emsg))
  ELSE IF ~o.json THEN Respond(q1, 500, "json", JsonError(SyntaxMessage))
  ELSE IF o.hasError THEN Respond(q1, 500, "json", JsonError(o.errMsg))
  ELSE IF o.fmt \in {"none", "empty"}
    THEN Respond(q1, 500, "json", JsonError(MsgEmptyResponse))
  ELSE Respond(q1, 200, "json", [success |-> "true", text |-> CleanText(o)])

MsgInternal == <<"An", "internal", "server", "error", "occurred", ".">>

\* ClipDrop pass-through behind allowCors: the vendor's status is relayed
ReplyClipdropStream(q, o) ==
  LET q1 == Received(q, o) IN
  IF o.kind = "throw" THEN Respond(q1, 500, "json", [error |-> MsgInternal])
  ELSE IF ~Ok(o)
    THEN IF o.json
           THEN Respond(q1, o.status, "json", [error |-> o.errMsg])
           ELSE Respond(q1, o.status, "json",
                        [error |-> <<"ClipDrop", "API", "returned", "status", ToString(o.status)>>])
  ELSE Respond(SetHeaders(q1, {"Content-Type"}), 200, "send", EmptyObj)

\* ClipDrop streaming variant: response.body.pipe(res) either streams the
\* body out or, on a runtime whose body has no pipe, throws into catch
ReplyClipdropPipe(q, o) ==
  LET q1 == Received(q, o) IN
  IF o.kind = "throw" THEN {Respond(q1, 500, "json", [error |-> MsgImageFailed])}
  ELSE IF ~Ok(o)
    THEN {Respond(q1, o.status, "json", [error |-> <<"API", "Error", ":">> \o o.errMsg])}
  ELSE {Respond(SetHeaders(q1, {"Content-Type"}), 200, "pipe", EmptyObj),
        Respond(SetHeaders(q1, {"Content-Type"}), 500, "json", [error |-> MsgImageFailed])}

\* the remaining image handlers: a non-success status is thrown into catch
ReplyImage(q, o) ==
  LET q1 == Received(q, o) IN
  IF o.kind = "throw" \/ ~Ok(o) THEN Respond(q1, 500, "json", [error |-> MsgImageFailed])
  ELSE Respond(SetHeaders(q1, {"Content-Type"}), 200, "send", EmptyObj)

MsgProcessing == <<"An", "error", "occurred", "while", "processing", "your", "request", ".">>

\* the SDK-based grammar handler: sendMessage rejects on a transport failure
\* or a non-success status; the parsed text is sent as it is
ReplySdk(q, o) ==
  LET q1 == Received(q, o) IN
  IF o.kind = "throw" THEN Respond(q1, 500, "json", JsonError(o.emsg))
  ELSE IF ~Ok(o)
    THEN Respond(q1, 500, "json",
                 JsonError(IF o.errMsg # <<>> THEN o.errMsg ELSE MsgProcessing))
  ELSE IF o.json /\ o.fmt = "json" THEN Respond(q1, 200, "json", Payload(o.d))
  ELSE Respond(q1, 500, "json", JsonError(SyntaxMessage))

\* what a handler does when its outbound call settles with outcome o
Reply(q, o) ==
  CASE q.h \in RetryHandlers -> {ReplyRetry(q, o)}
    [] q.h \in GameHandlers -> {ReplyGame(q, o)}
    [] q.h = "grammarSimple" -> {ReplyGrammarSimple(q, o)}
    [] q.h \in TypingHandlers -> {ReplyTyping(q, o)}
    [] q.h = "clipdropStream" -> {ReplyClipdropStream(q, o)}
    [] q.h = "clipdropPipe" -> ReplyClipdropPipe(q, o)
    [] q.h = "grammarSdk" -> {ReplySdk(q, o)}
    [] OTHER -> {ReplyImage(q, o)}

(***************************************************************************)
(* The state machine.                                                      *)
(***************************************************************************)
\* the process: the configured keys, and whether the SDK client of the
\* SDK-based grammar module was built at load time
\* the requests of one behaviour
ReqIds == {1}

Envs ==
  { [keys |-> KeyVars, model |-> TRUE] }
  \cup { [keys |-> {}, model |-> m] : m \in BOOLEAN }

Init ==
  /\ env \in Envs
  /\ \E h \in Handlers, method \in Methods :
       \E body \in Bodies(h) :
         rq = [r \in ReqIds |-> NewRequest(h, method, body)]

\* request r arrives and runs to its first outbound call or to its end
ArriveReq(r) ==
  /\ rq[r].pc = "start"
  /\ \E q \in Ingress(rq[r], env) : rq' = [rq EXCEPT ![r] = q]
  /\ UNCHANGED env

\* the outbound call of request r settles
UpstreamReplyReq(r) ==
  /\ rq[r].pc = "fetch"
  /\ \E o \in Outcomes :
       \E q \in Reply(rq[r], o) : rq' = [rq EXCEPT ![r] = q]
  /\ UNCHANGED env

\* the backoff timer of request r fires, the attempt counter being one
\* module-level variable that every request reads
BackoffSharedCounter(r) ==
  /\ rq[r].pc = "sleep"
  /\ rq' = [s \in DOMAIN rq |->
              IF s = r THEN LoopNext(rq[r])
              ELSE [rq[s] EXCEPT !.attempt = rq[r].attempt + 1]]
  /\ UNCHANGED env

\* the backoff timer of request r fires
BackoffReq(r) ==
  /\ rq[r].pc = "sleep"
  /\ rq' = [rq EXCEPT ![r] = LoopNext(rq[r])]
  /\ UNCHANGED env

Arrive == \E r \in DOMAIN rq : ArriveReq(r)

UpstreamReply == \E r \in DOMAIN rq : UpstreamReplyReq(r)

Backoff == \E r \in DOMAIN rq : BackoffReq(r)

Next == Arrive \/ UpstreamReply \/ Backoff

Spec == Init /\ [][Next]_vars

\* the requests of a concurrent run
ConcIds == {1, 2}

\* two requests in flight on one instance: a paraphrase request and a
\* request to the SDK grammar handler or to a game handler
InitConc ==
  /\ env \in Envs
  /\ \E h \in {"grammarSdk", "hangman"}, method \in {"POST", "GET"} :
       \E b1 \in Bodies("paraphrase"), b2 \in Bodies(h) :
         /\ b1.defined /\ b2.defined
         /\ \A x \in Fields("paraphrase") : b1.f[x] \in {"str", "empty"}
         /\ \A x \in Fields(h) : b2.f[x] \in {"str", "blank"}
         /\ rq = [r \in ConcIds |->
                    IF r = 1 THEN NewRequest("paraphrase", "POST", b1)
                    ELSE NewRequest(h, method, b2)]

\* concurrent requests, their steps interleaved in any order
ConcSpec == InitConc /\ [][Next]_vars

\* a request that passes validation in a retry handler, keys configured
InitLoop ==
  /\ env = [keys |-> KeyVars, model |-> TRUE]
  /\ \E h \in RetryHandlers :
       rq = [r \in ReqIds |->
               NewRequest(h, "POST", [defined |-> TRUE, f |-> [x \in Fields(h) |-> "str"]])]

\* the retry loop under the scheduling of the runtime: the handler is run,
\* an outbound call settles and a timer fires
FairSpec ==
  /\ InitLoop
  /\ [][Next]_vars
  /\ \A r \in ReqIds :
       WF_vars(ArriveReq(r)) /\ WF_vars(UpstreamReplyReq(r)) /\ WF_vars(BackoffReq(r))

(***************************************************************************)
(* Observations on one request.                                            *)
(***************************************************************************)
Count(log, ev) == Cardinality({i \in 1..Len(log) : log[i].ev = ev})

\* number of outbound calls made for the request
Calls(q) == Count(q.log, "call")

\* number of backoff sleeps
Sleeps(q) == Count(q.log, "sleep")

IsRecv(e) == e.ev = "recv"

\* the outcome classes received, in order
RecvTags(q) ==
  LET rs == SelectSeq(q.log, IsRecv) IN [i \in 1..Len(rs) |-> rs[i].tag]

\* the request has ended with exactly one response, of the given status
Answered(q, status) ==
  q.pc = "done" /\ Len(q.res) = 1 /\ q.res[1].status = status

TypeOK ==
  /\ env \in Envs
  /\ \A r \in DOMAIN rq :
       /\ rq[r].h \in Handlers
       /\ rq[r].pc \in {"start", "fetch", "sleep", "done", "crashed"}
       /\ rq[r].attempt \in 0..(MAX_RETRIES + 1)
       /\ Len(rq[r].res) <= 1


(***************************************************************************)
(* Claims.                                                                 *)
(***************************************************************************)

\* C1: in every handler, a non-OPTIONS request that finds the handler's API
\* key unset is answered 500 and no outbound call is made for it, whatever
\* its method and body.
C1_MissingKeyAlways500 ==
  \A r \in DOMAIN rq :
     (rq[r].method # "OPTIONS" /\ ~KeyConfigured(rq[r].h, env) /\ rq[r].pc # "start")
       => (Answered(rq[r], 500) /\ Calls(rq[r]) = 0)

\* C2: in every handler, an OPTIONS request is answered 200 with no body
\* and no outbound call is made for it.
C2_OptionsAlways200 ==
  \A r \in DOMAIN rq :
     (rq[r].method = "OPTIONS" /\ rq[r].pc # "start")
       => (Answered(rq[r], 200) /\ rq[r].res[1].kind = "end" /\ Calls(rq[r]) = 0)

\* C3: in grammar and the first plagiarism variant, a non-success status
\* other than 503 on the first attempt ends the request: one outbound call,
\* no backoff sleep, response 500.
C3_ErrorStatusNotRetried ==
  \A r \in DOMAIN rq :
     (/\ rq[r].h \in {"grammar", "plagiarism1"}
      /\ Len(rq[r].log) >= 2
      /\ rq[r].log[2].ev = "recv" /\ rq[r].log[2].tag = "status")
       => (Answered(rq[r], 500) /\ Calls(rq[r]) = 1 /\ Sleeps(rq[r]) = 0)

\* C4: in grammar and the first plagiarism variant, a success-status
\* response without a text part (missing field, or finishReason SAFETY or
\* RECITATION) at an attempt below MAX_RETRIES ends the request at once
\* with 500: no sleep and no outbound call follows it.
C4_MissingTextNotRetried ==
  \A r \in DOMAIN rq :
     \A i \in 1..Len(rq[r].log) :
        (/\ rq[r].h \in {"grammar", "plagiarism1"}
         /\ rq[r].log[i].ev = "recv"
         /\ rq[r].log[i].tag \in {"missing", "blocked"}
         /\ rq[r].log[i].n < MAX_RETRIES)
          => (/\ Answered(rq[r], 500)
              /\ \A j \in (i + 1)..Len(rq[r].log) : rq[r].log[j].ev \notin {"sleep", "call"})

\* C5: in grammar and the first plagiarism variant, a success-status
\* response whose text part is not valid JSON gives a 500 with the
\* invalid-response-format message, and no outbound call follows the
\* attempt that received it.
C5_MalformedJsonNotRetried ==
  \A r \in DOMAIN rq :
     \A i \in 1..Len(rq[r].log) :
        (/\ rq[r].h \in {"grammar", "plagiarism1"}
         /\ rq[r].log[i].ev = "recv"
         /\ rq[r].log[i].tag \in {"garbage", "fenced", "blank"})
          => (/\ Answered(rq[r], 500)
              /\ rq[r].res[1].body = JsonError(MsgInvalidFormat)
              /\ \A j \in (i + 1)..Len(rq[r].log) : rq[r].log[j].ev # "call")

\* the recv event of the request's last attempt
LastRecv(q) ==
  LET rs == SelectSeq(q.log, IsRecv) IN rs[Len(rs)]

\* the 200 body a retry handler builds from the k-th vendor document
CarriesPayload(h, body, d) ==
  IF h = "paraphrase"
    THEN "paraphrasedText" \in DOMAIN body /\ body["paraphrasedText"] = "json:" \o ToString(d)
    ELSE \A x \in DOMAIN Payload(d) : x \in DOMAIN body /\ body[x] = Payload(d)[x]

\* C6: in every retry handler, when the upstream answers 503, 503 and then
\* 200 with a well-formed body, the handler makes exactly 3 outbound calls
\* and answers 200 with the payload of the third call's body.
C6_TwoOverloadsThenSuccess ==
  \A r \in DOMAIN rq :
     (rq[r].h \in RetryHandlers /\ RecvTags(rq[r]) = <<"503", "503", "json">>)
       => (/\ Answered(rq[r], 200)
           /\ Calls(rq[r]) = 3
           /\ CarriesPayload(rq[r].h, rq[r].res[1].body, LastRecv(rq[r]).d))

C6_Witness ==
  \E r \in DOMAIN rq :
     /\ rq[r].h = "paraphrase"
     /\ RecvTags(rq[r]) = <<"503", "503", "json">>
     /\ LastRecv(rq[r]).d = 2
     /\ rq[r].pc = "done"

\* every response received so far was a 503
AllOverloaded(q) ==
  LET t == RecvTags(q) IN Len(t) >= 1 /\ \A i \in 1..Len(t) : t[i] = "503"

\* C7: in every retry handler, when every upstream response is 503, the
\* handler makes exactly MAX_RETRIES + 1 = 4 outbound calls and then
\* answers 500 with the overload message.
C7_AllOverloaded ==
  \A r \in DOMAIN rq :
     (rq[r].h \in RetryHandlers /\ AllOverloaded(rq[r]))
       => (/\ Calls(rq[r]) <= MAX_RETRIES + 1
           /\ Len(RecvTags(rq[r])) <= MAX_RETRIES + 1
           /\ (rq[r].pc = "done" \/ Len(RecvTags(rq[r])) = MAX_RETRIES + 1)
                => (/\ Calls(rq[r]) = MAX_RETRIES + 1
                    /\ Answered(rq[r], 500)
                    /\ rq[r].res[1].body = JsonError(MsgOverload)))

C7_Witness ==
  \E r \in DOMAIN rq :
     /\ rq[r].h = "plagiarism2"
     /\ RecvTags(rq[r]) = <<"503", "503", "503", "503">>
     /\ rq[r].pc = "done"

\* C8: in every retry handler, under every sequence of upstream outcomes,
\* the attempt counter stays within 0..MAX_RETRIES and at most
\* MAX_RETRIES + 1 = 4 outbound calls are made for one request.
C8_AttemptsBounded ==
  \A r \in DOMAIN rq :
     rq[r].h \in RetryHandlers
       => (rq[r].attempt \in 0..MAX_RETRIES /\ Calls(rq[r]) <= MAX_RETRIES + 1)

C8_Witness ==
  \E r \in DOMAIN rq :
     /\ rq[r].h = "grammar"
     /\ rq[r].attempt = MAX_RETRIES
     /\ Calls(rq[r]) = MAX_RETRIES + 1
     /\ RecvTags(rq[r]) = <<"transport", "status", "garbage", "blocked">>

\* the request is inside the retry loop
InLoop(r) == rq[r].h \in RetryHandlers /\ rq[r].pc \in {"fetch", "sleep"}

\* the request has ended in one 200 or one 500
Ended(r) == Answered(rq[r], 200) \/ Answered(rq[r], 500)

\* C9: in every retry handler, when outbound calls and backoff sleeps
\* complete, a request that enters the retry loop always ends, after at
\* most 4 attempts, in exactly one outcome, a 200 or a 500; the loop is
\* never left with no response written.
C9_LoopTerminates ==
  /\ \A r \in ReqIds : InLoop(r) ~> Ended(r)
  /\ [](\A r \in ReqIds :
          (rq[r].h \in RetryHandlers /\ Calls(rq[r]) >= 1)
            => (/\ Calls(rq[r]) <= MAX_RETRIES + 1
                /\ rq[r].pc \in {"fetch", "sleep", "done"}
                /\ rq[r].pc = "done" => Ended(r)
                /\ rq[r].pc # "done" => rq[r].res = <<>>))

C9_Witness ==
  \E r \in DOMAIN rq :
     /\ rq[r].h = "humanizer"
     /\ Calls(rq[r]) = MAX_RETRIES + 1
     /\ Answered(rq[r], 500)
     /\ RecvTags(rq[r]) = <<"transport", "503", "garbage", "missing">>

\* C10: in every retry handler, a transport-level failure at attempt n < 3
\* is followed by a backoff sleep of 1000 * 2^n ms and then by attempt
\* n + 1; when every attempt fails at transport level the handler makes
\* exactly 4 calls and then answers 500.
C10_TransportFailureRetried ==
  \A r \in DOMAIN rq :
     rq[r].h \in RetryHandlers =>
       /\ \A i \in 1..Len(rq[r].log) :
            (/\ rq[r].log[i].ev = "recv"
             /\ rq[r].log[i].tag = "transport"
             /\ rq[r].log[i].n < MAX_RETRIES)
              => (/\ Len(rq[r].log) > i
                  /\ rq[r].log[i + 1] = Ev("sleep", BASE_DELAY * (2 ^ rq[r].log[i].n), "", 0)
                  /\ Len(rq[r].log) > i + 1
                       => rq[r].log[i + 2] = Ev("call", rq[r].log[i].n + 1, "", 0))
       /\ (rq[r].pc = "done" /\ Len(RecvTags(rq[r])) >= 1
             /\ \A k \in 1..Len(RecvTags(rq[r])) : RecvTags(rq[r])[k] = "transport")
            => (Calls(rq[r]) = MAX_RETRIES + 1 /\ Answered(rq[r], 500))

\* C11: in every retry handler, when the request ends in a 500 caused by a
\* non-503 error status, the message of that 500 contains the vendor's
\* error.message when the error body carried one, and the status-derived
\* text 'Gemini API Error: <status> <statusText>' when it carried none.
C11_VendorMessageSurfaced ==
  \A r \in DOMAIN rq :
     (/\ rq[r].h \in RetryHandlers
      /\ Answered(rq[r], 500)
      /\ Calls(rq[r]) >= 1
      /\ LastRecv(rq[r]).tag = "status")
       => IF rq[r].last.msg # <<>>
            THEN Includes(rq[r].res[1].body.message, rq[r].last.msg)
            ELSE Includes(rq[r].res[1].body.message, StatusMessage(rq[r].last.status))

\* the arguments of the request's sleep calls, in order
SleepDelays(q) ==
  LET IsSleep(e) == e.ev = "sleep"
      ss == SelectSeq(q.log, IsSleep)
  IN [i \in 1..Len(ss) |-> ss[i].n]

\* C12: in every retry handler, a 503 at attempt n < 3 is followed by a
\* backoff sleep of exactly 1000 ms for n = 0, 2000 ms for n = 1 and 4000 ms
\* for n = 2, and the sleeps of one request are strictly increasing.
C12_BackoffDoubles ==
  \A r \in DOMAIN rq :
     rq[r].h \in RetryHandlers =>
       /\ \A i \in 1..Len(rq[r].log) :
            (/\ rq[r].log[i].ev = "recv"
             /\ rq[r].log[i].tag = "503"
             /\ rq[r].log[i].n < 3)
              => (/\ Len(rq[r].log) > i
                  /\ rq[r].log[i + 1].ev = "sleep"
                  /\ rq[r].log[i + 1].n =
                       (CASE rq[r].log[i].n = 0 -> 1000
                          [] rq[r].log[i].n = 1 -> 2000
                          [] OTHER -> 4000))
       /\ \A i, j \in 1..Len(SleepDelays(rq[r])) :
            i < j => SleepDelays(rq[r])[i] < SleepDelays(rq[r])[j]

C12_Witness ==
  \E r \in DOMAIN rq :
     /\ rq[r].h = "humanizer"
     /\ RecvTags(rq[r]) = <<"503", "503", "503">>
     /\ SleepDelays(rq[r]) = <<1000, 2000, 4000>>
     /\ rq[r].pc = "sleep"

\* outbound calls of the request that have not settled yet
InFlight(q) == Calls(q) - Count(q.log, "recv")

\* C13: within one request's retry loop at most one outbound call is in
\* flight at any time, none is in flight during a backoff sleep, and the
\* call of attempt n + 1 is issued only by a step in which attempt n has
\* settled and the backoff sleep started after it, if any, has finished.
C13_OneCallInFlight ==
  /\ [](\A r \in DOMAIN rq :
          rq[r].h \in RetryHandlers
            => (/\ InFlight(rq[r]) \in {0, 1}
                /\ InFlight(rq[r]) = 1 <=> rq[r].pc = "fetch"
                /\ rq[r].pc = "sleep" => InFlight(rq[r]) = 0))
  /\ [][\A r \in DOMAIN rq :
          (rq[r].h \in RetryHandlers /\ Calls(rq'[r]) > Calls(rq[r]))
            => (/\ Calls(rq'[r]) = Calls(rq[r]) + 1
                /\ rq'[r].log[Len(rq'[r].log)] = Ev("call", Calls(rq[r]), "", 0)
                /\ Count(rq'[r].log, "recv") = Calls(rq[r])
                /\ \/ rq[r].pc = "start"
                   \/ rq[r].pc = "sleep" /\ rq'[r].log = Append(rq[r].log, Ev("call", Calls(rq[r]), "", 0))
                   \/ rq[r].pc = "fetch" /\ Sleeps(rq'[r]) = Sleeps(rq[r]))]_vars

C13_Witness ==
  \E r \in DOMAIN rq :
     /\ rq[r].h = "grammar"
     /\ rq[r].pc = "fetch"
     /\ Calls(rq[r]) = 3
     /\ Sleeps(rq[r]) = 1
     /\ RecvTags(rq[r]) = <<"status", "transport">>

\* C14: on every path of every handler the response of a request is
\* written at most once: there is never more than one response, every write
\* ends the handler, and a response once written is never followed by
\* another write, an outbound call or a sleep.
C14_SingleResponse ==
  /\ [](\A r \in DOMAIN rq :
          /\ Len(rq[r].res) <= 1
          /\ Count(rq[r].log, "write") = Len(rq[r].res)
          /\ rq[r].res # <<>>
               => (rq[r].pc = "done" /\ rq[r].log[Len(rq[r].log)].ev = "write"))
  /\ [][\A r \in DOMAIN rq :
          rq[r].res # <<>> => rq'[r] = rq[r]]_vars

C14_Witness ==
  \E r \in DOMAIN rq :
     /\ rq[r].h = "clipdropPipe"
     /\ Answered(rq[r], 500)
     /\ Calls(rq[r]) = 1
     /\ LastRecv(rq[r]).tag = "json"
     /\ "Content-Type" \in rq[r].hdrs

\* C15: in every handler, a request whose method is neither POST nor
\* OPTIONS is answered 405 and no outbound call is made for it.
C15_OtherMethods405 ==
  \A r \in DOMAIN rq :
     (rq[r].method \notin {"POST", "OPTIONS"} /\ rq[r].pc # "start")
       => (Answered(rq[r], 405) /\ Calls(rq[r]) = 0)

\* C16: every response a handler sends has status 200, 400, 405 or 500, and
\* a response that follows a non-success status of the vendor has status
\* 500, never the vendor's own status.
C16_StatusTranslated ==
  \A r \in DOMAIN rq :
     rq[r].res # <<>> =>
       /\ rq[r].res[1].status \in {200, 400, 405, 500}
       /\ (Calls(rq[r]) >= 1 /\ LastRecv(rq[r]).tag \in {"status", "503"})
            => rq[r].res[1].status = 500

\* the handlers with required fields
FieldHandlers ==
  {"grammar", "grammarSimple", "plagiarism1", "plagiarism2", "humanizer", "paraphrase"}
    \cup GameHandlers

\* a required field of the request is absent or empty
FieldMissing(q) ==
  \/ ~q.body.defined
  \/ \E x \in Fields(q.h) : q.body.f[x] \in {"absent", "empty"}

\* C17: in the handlers with required fields, a POST that finds the API key
\* configured and has a required field absent or empty is answered 400 with
\* success false, and no outbound call and no backoff sleep happens for it.
C17_MissingField400 ==
  \A r \in DOMAIN rq :
     (/\ rq[r].h \in FieldHandlers
      /\ rq[r].method = "POST"
      /\ KeyConfigured(rq[r].h, env)
      /\ FieldMissing(rq[r])
      /\ rq[r].pc # "start")
       => (/\ Answered(rq[r], 400)
           /\ rq[r].res[1].body.success = "false"
           /\ Calls(rq[r]) = 0
           /\ Sleeps(rq[r]) = 0)

\* the message literals of the handlers, with the status-derived text
CuratedMessages ==
  { MsgKeyMissing, MsgTextRequired, MsgTextModeRequired, MsgDefault, MsgOverload,
    MsgInvalidFormat, MsgRecitation, MsgServiceError, MsgServiceIssue, MsgEmptyResponse,
    MsgImageFailed, MsgInternal, MsgProcessing, MsgMethodNotAllowed, MsgModelMissing,
    MsgInvalidRequest }
  \cup { MsgTimeout(h) : h \in Handlers }
  \cup { MsgFieldRequired(h) : h \in Handlers }
  \cup { MsgTypingKeyMissing(h) : h \in Handlers }
  \cup { MsgImageKeyMissing(h) : h \in Handlers }
  \cup { MsgMethod(m) : m \in Methods }
  \cup { <<"ERROR", ":">> \o StatusMessage(st) : st \in ErrorStatuses \cup {503} }

\* the message of an error body
ErrorText(body) == IF "message" \in DOMAIN body THEN body.message ELSE body.error

\* C18: in every handler, the message of every error response is one of a
\* fixed set of curated strings, whatever the text of the upstream error
\* body or of a thrown exception.
C18_CuratedMessages ==
  \A r \in DOMAIN rq :
     (rq[r].res # <<>> /\ rq[r].res[1].status >= 400)
       => ErrorText(rq[r].res[1].body) \in CuratedMessages

\* the handlers that answer { success: true, ...data }
SpreadHandlers ==
  {"grammar", "grammarSimple", "plagiarism1", "plagiarism2", "humanizer",
   "wordScramble", "hangman", "riddle"}

C20_SuccessMatchesStatus ==
  \A r \in DOMAIN rq :
     (rq[r].h \notin ImageHandlers /\ rq[r].res # <<>> /\ rq[r].res[1].kind = "json")
       => LET status == rq[r].res[1].status
              body == rq[r].res[1].body
          IN /\ status = 200 => ("success" \in DOMAIN body /\ body.success = "true")
             /\ ("success" \in DOMAIN body /\ body.success = "false")
                  => (status < 200 \/ status > 299)

\* C21: every response of every handler, preflight, success or error,
\* carries the Access-Control-Allow-Origin, Access-Control-Allow-Methods and
\* Access-Control-Allow-Headers headers.
C21_CorsOnEveryResponse ==
  \A r \in DOMAIN rq :
     rq[r].res # <<>>
       => {"Access-Control-Allow-Origin", "Access-Control-Allow-Methods",
           "Access-Control-Allow-Headers"} \subseteq rq[r].hdrs

\* the image handlers that build a FormData from the inbound image
FormDataHandlers ==
  {"removebgRaw", "removebgForm", "clipdropForm", "clipdropFormNoHdr", "clipdropRaw"}

\* C22: in every image handler that builds a FormData from the inbound
\* image, the body of the outbound call is that FormData, sent with its
\* multipart Content-Type header, and never the raw inbound buffer.
C22_MultipartBodySent ==
  \A r \in DOMAIN rq :
     (rq[r].h \in FormDataHandlers /\ Calls(rq[r]) >= 1)
       => (rq[r].out.body = "formData" /\ rq[r].out.ctype = "multipart")

\* the steps a request can take when it runs alone
StepsAlone(q, e) ==
  CASE q.pc = "start" -> Ingress(q, e)
    [] q.pc = "fetch" -> UNION { Reply(q, o) : o \in Outcomes }
    [] q.pc = "sleep" -> {LoopNext(q)}
    [] OTHER -> {}

OtherFailures(h) ==
  {"status", "missing", "blocked", "garbage", "blank", "badbody"}
    \cup (IF h = "plagiarism2" THEN {} ELSE {"fenced"})

\* C24: in the humanizer handler and the second plagiarism variant, an
\* attempt that ends in a failure other than a 503 status or a transport
\* failure ends the request with 500 at that attempt: no backoff sleep and
\* no outbound call follows it.
C24_OnlyOverloadAndTransportRetried ==
  \A r \in DOMAIN rq :
     \A i \in 1..Len(rq[r].log) :
        (/\ rq[r].h \in {"humanizer", "plagiarism2"}
         /\ rq[r].log[i].ev = "recv"
         /\ rq[r].log[i].tag \in OtherFailures(rq[r].h))
          => (/\ Answered(rq[r], 500)
              /\ \A j \in (i + 1)..Len(rq[r].log) : rq[r].log[j].ev \notin {"sleep", "call"})

\* C25: in the humanizer handler and the second plagiarism variant, a
\* success-status response without a text part whose finishReason is SAFETY
\* or RECITATION, at any attempt n, ends the request at that attempt: n + 1
\* outbound calls, no sleep and no call after it, and a 500 whose message
\* is not the overload message.
C25_BlockedContentFatal ==
  \A r \in DOMAIN rq :
     \A i \in 1..Len(rq[r].log) :
        (/\ rq[r].h \in {"humanizer", "plagiarism2"}
         /\ rq[r].log[i].ev = "recv"
         /\ rq[r].log[i].tag = "blocked")
          => (/\ Answered(rq[r], 500)
              /\ Calls(rq[r]) = rq[r].log[i].n + 1
              /\ \A j \in (i + 1)..Len(rq[r].log) : rq[r].log[j].ev \notin {"sleep", "call"}
              /\ rq[r].res[1].body.message # MsgOverload)

C25_Witness ==
  \E r \in DOMAIN rq :
     /\ rq[r].h = "humanizer"
     /\ RecvTags(rq[r]) = <<"503", "transport", "blocked">>
     /\ Answered(rq[r], 500)
     /\ Sleeps(rq[r]) = 2

C27_SdkTextValidation ==
  \A r \in DOMAIN rq :
     (rq[r].h = "grammarSdk" /\ rq[r].method = "POST" /\ rq[r].pc # "start")
       => /\ (rq[r].body.defined /\ rq[r].body.f["text"] \in {"empty", "blank"})
               => (/\ Answered(rq[r], 200)
                   /\ rq[r].res[1].body =
                        [success |-> "true", analysis |-> "N/A 100", corrections |-> "[]"]
                   /\ Calls(rq[r]) = 0)
          /\ (~rq[r].body.defined \/ rq[r].body.f["text"] \in {"absent", "num"})
               => (Answered(rq[r], 400) /\ Calls(rq[r]) = 0)

\* C28: in the grammar handler and the first plagiarism variant, every
\* outbound call after the first is immediately preceded by a backoff
\* sleep, and whenever no sleep is running the number of sleeps equals the
\* number of calls minus one, whatever the upstream returns.
C28_SleepBeforeEveryRetry ==
  \A r \in DOMAIN rq :
     (rq[r].h \in {"grammar", "plagiarism1"} /\ Calls(rq[r]) >= 1)
       => /\ \A i \in 2..Len(rq[r].log) :
               rq[r].log[i].ev = "call" => rq[r].log[i - 1].ev = "sleep"
          /\ rq[r].pc # "sleep" => Sleeps(rq[r]) = Calls(rq[r]) - 1

\* C29: for every handler and every request, whatever its method and body,
\* no path of the handler ends in an uncaught exception and none returns
\* without a response written: the handler never crashes and ends only
\* with a response.
C29_AlwaysAnswers ==
  \A r \in DOMAIN rq :
     /\ rq[r].pc # "crashed"
     /\ rq[r].pc = "done" => Len(rq[r].res) = 1

\* C30: every 200 response of the typing-test handlers to a POST carries a
\* non-empty text, and an upstream text part that is missing, empty or made
\* only of whitespace is answered 500 'AI returned empty response'.
C30_TypingTextNonEmpty ==
  \A r \in DOMAIN rq :
     (rq[r].h \in TypingHandlers /\ rq[r].pc = "done" /\ Calls(rq[r]) = 1)
       => /\ rq[r].res[1].status = 200 => rq[r].res[1].body.text # ""
          /\ LastRecv(rq[r]).tag \in {"missing", "blank"}
               => (/\ Answered(rq[r], 500)
                   /\ rq[r].res[1].body = JsonError(MsgEmptyResponse))

====
